---- MODULE Spec2Model ----
(***************************************************************************)
(* Model of gatto/rasp-utilities, src/email: the inbox checker             *)
(* (email_check.py) and the status reporter (show_status.py).              *)
(*                                                                         *)
(* Python dicts are modelled as sequences of <<key, value>> pairs in       *)
(* insertion order (keys unique); an exception leaving a function is the   *)
(* field raised = TRUE of the function's result record.                    *)
(***************************************************************************)
EXTENDS Integers, Sequences, FiniteSets, TLC

\* ------------------------------------------------------------------ bounds
MaxAccounts == 2        \* longest operator-written account list
MaxCount == 1           \* largest unread count a server reports
MaxTicks == 2           \* seconds the clock advances during a behaviour
MaxDays == 2            \* largest age, in days, of a stored result document

\* --------------------------------------------------------------- constants
Names == {"A", "B"}
Types == {"gmail", "oauth_mail", "icloud"}
PlaceholderEmail == "your.email@gmail.com"
TemplateIcloudEmail == "your.email@icloud.com"
EmailOf(n) == IF n = "A" THEN "a@x" ELSE "b@x"
Emails == {EmailOf(n) : n \in Names}
TemplateEmails == {PlaceholderEmail, "your.second.email@gmail.com", TemplateIcloudEmail}
AllEmails == Emails \cup TemplateEmails
NoPw == "<none>"
TypedPw == "pw"

\* token file of one account: absent, or a pickled bundle that is
\* valid / expired with a refresh token / invalid without one / unreadable
TokenStates == {"absent", "valid", "refreshable", "stale", "corrupt"}

Descriptors == {[name |-> n, email |-> EmailOf(n), type |-> t] : n \in Names, t \in Types}

RECURSIVE SeqsUpTo(_, _)
SeqsUpTo(S, n) ==
    IF n = 0 THEN {<<>>}
    ELSE LET shorter == SeqsUpTo(S, n - 1)
         IN shorter \cup {Append(s, x) : s \in {q \in shorter : Len(q) = n - 1}, x \in S}

default_config ==
    << [name |-> "Gmail 1", email |-> PlaceholderEmail, type |-> "gmail"],
       [name |-> "Gmail 2", email |-> "your.second.email@gmail.com", type |-> "gmail"],
       [name |-> "iCloud", email |-> TemplateIcloudEmail, type |-> "icloud"] >>

ConfigFiles ==
    {[state |-> "absent", accounts |-> <<>>], [state |-> "malformed", accounts |-> <<>>]}
    \cup {[state |-> "ok", accounts |-> a] : a \in SeqsUpTo(Descriptors, MaxAccounts) \cup {default_config}}

\* result-document locations
CheckerResultsPath == "~/.config/email_check/last_results.json"
ReporterResultsPath == "~/.config/email_counter/last_results.json"
LegacyResultsPath == "~/.email_counter/last_results.json"
Paths == {CheckerResultsPath, ReporterResultsPath, LegacyResultsPath}

NoFile == [exists |-> FALSE, ok |-> FALSE, hasTs |-> FALSE, timestamp |-> <<0, 0, 0, 0>>, counts |-> <<>>]

VARIABLES
    configFile,     \* config.json
    secretFile,     \* credentials.json exists
    tokens,         \* tokens/<email>.pickle, per email
    keyring,        \* credential store, per email
    resultFiles,    \* the three last_results.json locations
    clock,          \* datetime.now(), in seconds
    pc,             \* position of the checker's main()
    configure,      \* args.configure of the run
    accounts,       \* EmailCounter.accounts
    handlers,       \* EmailCounter.handlers, pairs <<name, handler>>
    idx,            \* position of the loop of check_all_accounts
    results,        \* results of check_all_accounts, pairs <<name, count>>
    exitCode,       \* exit status of the checker, -1 while running
    outcome,        \* how the checker's main() ended
    lastCall,       \* the most recent get_unread_count call and its trace
    ticks,          \* seconds elapsed since the behaviour began
    report,         \* the latest run of the status reporter
    prevReport      \* the reporter run before it, if no check intervened

checkerVars == <<configFile, secretFile, tokens, keyring, pc, configure, accounts,
                 handlers, idx, results, exitCode, outcome, lastCall>>
reporterVars == <<ticks, report, prevReport>>
vars == <<configFile, secretFile, tokens, keyring, resultFiles, clock, pc, configure,
          accounts, handlers, idx, results, exitCode, outcome, lastCall, ticks, report,
          prevReport>>

\* ------------------------------------------------------------ dict helpers
Keys(d) == {d[i][1] : i \in 1..Len(d)}
Get(d, k) == d[CHOOSE i \in 1..Len(d) : d[i][1] = k][2]
Put(d, k, v) ==
    IF k \in Keys(d)
    THEN [i \in 1..Len(d) |-> IF d[i][1] = k THEN <<k, v>> ELSE d[i]]
    ELSE Append(d, <<k, v>>)

\* ------------------------------------------------------------ GmailHandler
\* what the outside world does during one call: the step that fails, if it is
\* reached (the first failure ends the call), and the count a successful query reports
GmailOutcomes ==
    {[fail |-> f, count |-> 0] : f \in {"refresh", "flow", "api"}}
    \cup {[fail |-> "none", count |-> c] : c \in 0..MaxCount}

\* authenticate(), after a bundle was obtained by `how`: save it, then build the session
AcquiredUnsaved(tok, pre, how) ==
    [ok |-> "true", tok |-> tok, service |-> TRUE, log |-> pre \o <<how, "build">>]

Acquired(tok, pre, how) ==
    [ok |-> "true", tok |-> "valid", service |-> TRUE, log |-> pre \o <<how, "write_token", "build">>]

\* authenticate(): ok is "true", "false" or "raise"
authenticate(tok, secret, o) ==
    IF tok = "corrupt"
    THEN [ok |-> "raise", tok |-> tok, service |-> FALSE, log |-> <<"load_token">>]
    ELSE LET pre == IF tok = "absent" THEN <<>> ELSE <<"load_token">>
         IN IF tok = "valid"
            THEN [ok |-> "true", tok |-> tok, service |-> TRUE, log |-> pre \o <<"build">>]
            ELSE IF tok = "refreshable"
            THEN IF o.fail # "refresh"
                 THEN Acquired(tok, pre, "refresh")
                 ELSE [ok |-> "raise", tok |-> tok, service |-> FALSE, log |-> pre \o <<"refresh">>]
            ELSE IF ~secret
            THEN [ok |-> "false", tok |-> tok, service |-> FALSE, log |-> pre \o <<"missing_secret">>]
            ELSE IF o.fail # "flow"
            THEN Acquired(tok, pre, "flow")
            ELSE [ok |-> "raise", tok |-> tok, service |-> FALSE, log |-> pre \o <<"flow">>]

\* GmailHandler.get_unread_count()
GmailGetUnreadCount(service, tok, secret, o) ==
    LET a == IF service
             THEN [ok |-> "true", tok |-> tok, service |-> TRUE, log |-> <<>>]
             ELSE authenticate(tok, secret, o)
    IN IF a.ok = "raise"
       THEN [raised |-> TRUE, value |-> 0, tok |-> a.tok, service |-> a.service, log |-> a.log]
       ELSE IF a.ok = "false"
       THEN [raised |-> FALSE, value |-> -1, tok |-> a.tok, service |-> a.service, log |-> a.log]
       ELSE IF o.fail # "api"
       THEN [raised |-> FALSE, value |-> o.count, tok |-> a.tok, service |-> a.service,
             log |-> a.log \o <<"list">>]
       ELSE [raised |-> FALSE, value |-> -1, tok |-> a.tok, service |-> a.service,
             log |-> a.log \o <<"list", "log_error">>]

\* ------------------------------------------------------------- ImapHandler
ImapOutcomes ==
    {[fail |-> f, count |-> 0] :
        f \in {"connect", "prompt", "login", "search_error", "search_status", "logout"}}
    \cup {[fail |-> "none", count |-> c] : c \in 0..MaxCount}

get_password_always_prompts(kr, email, o) ==
    IF o.fail = "prompt"
    THEN [raised |-> TRUE, password |-> NoPw, keyring |-> kr, log |-> <<"keyring_get", "prompt">>]
    ELSE [raised |-> FALSE, password |-> TypedPw, keyring |-> [kr EXCEPT ![email] = TypedPw],
          log |-> <<"keyring_get", "prompt", "keyring_set">>]

\* get_password()
get_password(kr, email, o) ==
    IF kr[email] # NoPw
    THEN [raised |-> FALSE, password |-> kr[email], keyring |-> kr, log |-> <<"keyring_get">>]
    ELSE IF o.fail = "prompt"
    THEN [raised |-> TRUE, password |-> NoPw, keyring |-> kr, log |-> <<"keyring_get", "prompt">>]
    ELSE [raised |-> FALSE, password |-> TypedPw, keyring |-> [kr EXCEPT ![email] = TypedPw],
          log |-> <<"keyring_get", "prompt", "keyring_set">>]

\* ImapHandler.get_unread_count()
ImapGetUnreadCount(kr, email, o) ==
    IF o.fail = "connect"
    THEN [raised |-> FALSE, value |-> -1, keyring |-> kr, log |-> <<"log_error">>]
    ELSE LET p == get_password(kr, email, o)
             l1 == <<"connected">> \o p.log
         IN IF p.raised
            THEN [raised |-> FALSE, value |-> -1, keyring |-> p.keyring, log |-> l1 \o <<"log_error">>]
            ELSE IF o.fail = "login"
            THEN [raised |-> FALSE, value |-> -1, keyring |-> p.keyring,
                  log |-> l1 \o <<"login", "log_error">>]
            ELSE IF o.fail = "search_error"
            THEN [raised |-> FALSE, value |-> -1, keyring |-> p.keyring,
                  log |-> l1 \o <<"login", "select", "search", "log_error">>]
            ELSE IF o.fail = "search_status"
            THEN [raised |-> FALSE, value |-> -1, keyring |-> p.keyring,
                  log |-> l1 \o <<"login", "select", "search", "log_error">>]
            ELSE IF o.fail = "logout"
            THEN [raised |-> FALSE, value |-> -1, keyring |-> p.keyring,
                  log |-> l1 \o <<"login", "select", "search", "logout", "log_error">>]
            ELSE [raised |-> FALSE, value |-> o.count, keyring |-> p.keyring,
                  log |-> l1 \o <<"login", "select", "search", "logout">>]

\* ------------------------------------------------------------ EmailCounter
MakeHandlerOauthMail(account) ==
    IF account.type = "oauth_mail"
    THEN [kind |-> "GmailHandler", account |-> account, service |-> FALSE]
    ELSE [kind |-> "ImapHandler", account |-> account, service |-> FALSE]

MakeHandler(account) ==
    IF account.type = "gmail"
    THEN [kind |-> "GmailHandler", account |-> account, service |-> FALSE]
    ELSE [kind |-> "ImapHandler", account |-> account, service |-> FALSE]

RECURSIVE setup_handlers(_, _)
setup_handlers(accts, hs) ==
    IF accts = <<>> THEN hs
    ELSE setup_handlers(Tail(accts), Put(hs, Head(accts).name, MakeHandler(Head(accts))))

\* load_config(): the accounts and the config file afterwards
load_config(cf) ==
    IF cf.state = "absent"
    THEN [raised |-> FALSE, accounts |-> default_config,
          file |-> [state |-> "ok", accounts |-> default_config]]
    ELSE IF cf.state = "malformed"
    THEN [raised |-> TRUE, accounts |-> <<>>, file |-> cf]
    ELSE [raised |-> FALSE, accounts |-> cf.accounts, file |-> cf]

IsPlaceholderByName(accts) == accts[1].name = "your.email@gmail.com"

IsPlaceholder(accts) == accts[1].email = "your.email@gmail.com"

NoCall == [kind |-> "none", name |-> "", email |-> "", hadPw |-> FALSE, tokBefore |-> "absent",
           raised |-> FALSE, value |-> 0, log |-> <<>>]

\* ------------------------------------------------------- timestamps, JSON
\* datetime.isoformat(): <<day, hour, minute, second>> of a time in seconds
isoformat(t) == <<t \div 86400, (t % 86400) \div 3600, (t % 3600) \div 60, t % 60>>
\* datetime.fromisoformat()
fromisoformat(s) == s[1] * 86400 + s[2] * 3600 + s[3] * 60 + s[4]

\* save_results(): the result files afterwards
save_results(files, res, now) ==
    [files EXCEPT ![CheckerResultsPath] =
        [exists |-> TRUE, ok |-> TRUE, hasTs |-> TRUE, timestamp |-> isoformat(now), counts |-> res]]

\* ------------------------------------------------------------ checker main
Call(kind, h, r) ==
    [kind |-> kind, name |-> h.account.name, email |-> h.account.email,
     hadPw |-> keyring[h.account.email] # NoPw, tokBefore |-> tokens[h.account.email],
     raised |-> r.raised, value |-> r.value, log |-> r.log]

\* main() up to the start of the check: parse_args, EmailCounter(), --configure, the placeholder guard
MainStart ==
    /\ pc = "start"
    /\ \E cfg \in BOOLEAN :
         LET ld == load_config(configFile)
             nonGmail == {i \in 1..Len(ld.accounts) : ld.accounts[i].type # "gmail"}
         IN /\ configure' = cfg
            /\ configFile' = ld.file
            /\ accounts' = ld.accounts
            /\ handlers' = setup_handlers(ld.accounts, <<>>)
            /\ IF ld.raised
               THEN /\ pc' = "done" /\ exitCode' = 1 /\ outcome' = "crashed"
                    /\ keyring' = keyring
               ELSE IF cfg
               THEN /\ \E chosen \in SUBSET nonGmail :
                         keyring' = [e \in AllEmails |->
                                        IF \E i \in chosen : ld.accounts[i].email = e
                                        THEN TypedPw ELSE keyring[e]]
                    /\ pc' = "done" /\ exitCode' = 0 /\ outcome' = "configured"
               ELSE IF ld.accounts = <<>>
               THEN /\ pc' = "done" /\ exitCode' = 1 /\ outcome' = "crashed"
                    /\ keyring' = keyring
               ELSE IF IsPlaceholder(ld.accounts)
               THEN /\ pc' = "done" /\ exitCode' = 1 /\ outcome' = "placeholder"
                    /\ keyring' = keyring
               ELSE /\ pc' = "checking" /\ exitCode' = -1 /\ outcome' = "running"
                    /\ keyring' = keyring
    /\ UNCHANGED <<secretFile, tokens, resultFiles, clock, idx, results, lastCall, reporterVars>>

\* one iteration of the loop of check_all_accounts(); an exception leaves the
\* loop and is caught by main(), which exits with 1
CheckNext ==
    /\ pc = "checking"
    /\ idx <= Len(handlers)
    /\ LET name == handlers[idx][1]
           h == handlers[idx][2]
           email == h.account.email
           After(r) ==
               /\ lastCall' = Call(h.kind, h, r)
               /\ IF r.raised
                  THEN /\ pc' = "done" /\ exitCode' = 1 /\ outcome' = "check_raised"
                       /\ UNCHANGED <<idx, results>>
                  ELSE /\ results' = Put(results, name, r.value)
                       /\ idx' = idx + 1
                       /\ UNCHANGED <<pc, exitCode, outcome>>
       IN IF h.kind = "GmailHandler"
          THEN \E o \in GmailOutcomes :
                 LET r == GmailGetUnreadCount(h.service, tokens[email], secretFile, o)
                 IN /\ tokens' = [tokens EXCEPT ![email] = r.tok]
                    /\ handlers' = [handlers EXCEPT ![idx] = <<name, [h EXCEPT !.service = r.service]>>]
                    /\ keyring' = keyring
                    /\ After(r)
          ELSE \E o \in ImapOutcomes :
                 LET r == ImapGetUnreadCount(keyring, email, o)
                 IN /\ keyring' = r.keyring
                    /\ UNCHANGED <<tokens, handlers>>
                    /\ After(r)
    /\ UNCHANGED <<configFile, secretFile, resultFiles, clock, configure, accounts, reporterVars>>

\* check_all_accounts() returns; main() saves the results, prints and exits with 0
MainFinish ==
    /\ pc = "checking"
    /\ idx > Len(handlers)
    /\ resultFiles' = save_results(resultFiles, results, clock)
    /\ pc' = "done" /\ exitCode' = 0 /\ outcome' = "ok"
    /\ UNCHANGED <<configFile, secretFile, tokens, keyring, clock, configure, accounts,
                   handlers, idx, results, lastCall, reporterVars>>

\* ---------------------------------------------------------- status reporter
Line(kind, name, n, word, ts) == [kind |-> kind, name |-> name, n |-> n, word |-> word, ts |-> ts]
NoTs == <<0, 0, 0, 0>>

\* format_time_ago(): "<n> <word> ago"
format_time_ago(timestamp_str, now) ==
    LET diff == now - fromisoformat(timestamp_str)
        days == diff \div 86400
        seconds == diff % 86400
    IN IF days > 0 THEN [n |-> days, word |-> "days"]
       ELSE IF seconds >= 3600
       THEN [n |-> seconds \div 3600, word |-> IF seconds \div 3600 > 1 THEN "hours" ELSE "hour"]
       ELSE IF seconds >= 60
       THEN [n |-> seconds \div 60, word |-> IF seconds \div 60 > 1 THEN "minutes" ELSE "minute"]
       ELSE [n |-> seconds, word |-> IF seconds # 1 THEN "seconds" ELSE "second"]

CountLines(counts) ==
    [i \in 1..Len(counts) |->
        IF counts[i][2] >= 0 THEN Line("unread", counts[i][1], counts[i][2], "", NoTs)
        ELSE Line("error_checking_inbox", counts[i][1], 0, "", NoTs)]

TimeLinesOfNow(data, now) ==
    IF data.hasTs
    THEN LET ago == format_time_ago(data.timestamp, now)
         IN << Line("last_checked", "", ago.n, ago.word, NoTs),
               Line("exact_time", "", 0, "", isoformat(now)) >>
    ELSE <<>>

TimeLines(data, now) ==
    IF data.hasTs
    THEN LET ago == format_time_ago(data.timestamp, now)
         IN << Line("last_checked", "", ago.n, ago.word, NoTs),
               Line("exact_time", "", 0, "", isoformat(fromisoformat(data.timestamp))) >>
    ELSE <<>>

NoReport == [ran |-> FALSE, json |-> FALSE, legacy |-> FALSE, now |-> 0, exit |-> 0,
             hasTs |-> FALSE, timestamp |-> NoTs, counts |-> <<>>,
             lines |-> <<>>, dumped |-> NoFile, modified |-> FALSE]

\* main() of show_status.py: what it read and printed, and the files afterwards
show_status_main(files, json, legacy, now) ==
    LET useLegacy == ~files[ReporterResultsPath].exists /\ legacy /\ files[LegacyResultsPath].exists
        results_path == IF useLegacy THEN LegacyResultsPath ELSE ReporterResultsPath
        notice == IF useLegacy THEN <<Line("using_legacy_path", "", 0, "", NoTs)>> ELSE <<>>
        data == files[results_path]
        base == [NoReport EXCEPT !.ran = TRUE, !.json = json, !.legacy = legacy, !.now = now]
    IN [files |-> files,
        report |->
          IF ~data.exists
          THEN [base EXCEPT !.exit = 1,
                            !.lines = notice \o <<Line("no_data_found", "", 0, "", NoTs),
                                                  Line("expected_path", ReporterResultsPath, 0, "", NoTs)>>]
          ELSE IF ~data.ok
          THEN [base EXCEPT !.exit = 1,
                            !.lines = notice \o <<Line("error_reading", "", 0, "", NoTs)>>]
          ELSE IF json
          THEN [base EXCEPT !.hasTs = data.hasTs, !.timestamp = data.timestamp,
                            !.counts = data.counts, !.lines = notice, !.dumped = data]
          ELSE [base EXCEPT !.hasTs = data.hasTs, !.timestamp = data.timestamp,
                            !.counts = data.counts,
                            !.lines = notice \o <<Line("header", "", 0, "", NoTs)>>
                                      \o CountLines(data.counts) \o TimeLines(data, now)]]

\* one run of the status reporter
ReporterMain ==
    /\ \E json \in BOOLEAN, legacy \in BOOLEAN :
         LET r == show_status_main(resultFiles, json, legacy, clock)
         IN /\ report' = [r.report EXCEPT !.modified = (r.files # resultFiles)]
            /\ resultFiles' = r.files
            /\ prevReport' = report
    /\ UNCHANGED <<checkerVars, clock, ticks>>

\* EmailCounter.save_results(results), as the checker calls it after a check
SaveResults ==
    /\ \E c \in -1..MaxCount :
         resultFiles' = save_results(resultFiles, << <<"A", c>> >>, clock)
    /\ report' = NoReport
    /\ prevReport' = NoReport
    /\ UNCHANGED <<checkerVars, clock, ticks>>

\* a second passes
Tick ==
    /\ ticks < MaxTicks
    /\ ticks' = ticks + 1
    /\ clock' = clock + 1
    /\ UNCHANGED <<checkerVars, resultFiles, report, prevReport>>

Init ==
    /\ configFile \in ConfigFiles
    /\ secretFile \in BOOLEAN
    /\ tokens \in [AllEmails -> TokenStates]
    /\ keyring \in [AllEmails -> {NoPw, TypedPw}]
    /\ \A e \in TemplateEmails : tokens[e] = "absent" /\ keyring[e] = NoPw
    /\ resultFiles = [p \in Paths |-> NoFile]
    /\ clock = 0
    /\ pc = "start"
    /\ configure = FALSE
    /\ accounts = <<>>
    /\ handlers = <<>>
    /\ idx = 1
    /\ results = <<>>
    /\ exitCode = -1
    /\ outcome = "running"
    /\ lastCall = NoCall
    /\ ticks = 0
    /\ report = NoReport
    /\ prevReport = NoReport

Next == MainStart \/ CheckNext \/ MainFinish

Spec == Init /\ [][Next]_vars

\* ---- the status reporter beside the result store
StoredAt(t, counts) == [exists |-> TRUE, ok |-> TRUE, hasTs |-> TRUE, timestamp |-> isoformat(t), counts |-> counts]
Unparsable == [exists |-> TRUE, ok |-> FALSE, hasTs |-> FALSE, timestamp |-> NoTs, counts |-> <<>>]
Undated == [exists |-> TRUE, ok |-> TRUE, hasTs |-> FALSE, timestamp |-> NoTs, counts |-> << <<"A", 1>> >>]
OldDocuments == {NoFile, Unparsable, Undated, StoredAt(0, << <<"A", 1>>, <<"B", -1>> >>)}
LegacyDocuments == {NoFile, StoredAt(0, << <<"A", 0>> >>)}
Ages == {0, 45, 59, 60, 300, 3600, 10800}
StartClocks == {d * 86400 + a : d \in 0..MaxDays, a \in Ages}

InitReport ==
    /\ configFile = [state |-> "absent", accounts |-> <<>>]
    /\ secretFile = FALSE
    /\ tokens = [e \in AllEmails |-> "absent"]
    /\ keyring = [e \in AllEmails |-> NoPw]
    /\ resultFiles \in {[p \in Paths |-> IF p = ReporterResultsPath THEN old
                                         ELSE IF p = LegacyResultsPath THEN leg ELSE NoFile] :
                           old \in OldDocuments, leg \in LegacyDocuments}
    /\ clock \in StartClocks
    /\ pc = "start"
    /\ configure = FALSE
    /\ accounts = <<>>
    /\ handlers = <<>>
    /\ idx = 1
    /\ results = <<>>
    /\ exitCode = -1
    /\ outcome = "running"
    /\ lastCall = NoCall
    /\ ticks = 0
    /\ report = NoReport
    /\ prevReport = NoReport

NextReport == ReporterMain \/ SaveResults \/ Tick

SpecReport == InitReport /\ [][NextReport]_vars

\* ================================================================ claims
Has(log, e) == \E i \in 1..Len(log) : log[i] = e
Precedes(log, a, b) == \E i, j \in 1..Len(log) : i < j /\ log[i] = a /\ log[j] = b
CheckEnded == outcome \in {"ok", "check_raised"}
AccountNames == {accounts[i].name : i \in 1..Len(accounts)}

\* C1 (as claimed): whenever check_all_accounts() has ended it has returned,
\* and the mapping has exactly one entry per descriptor name, each value a
\* count >= 0 or -1; no account's failure keeps the others from being checked.
C1_Original ==
    CheckEnded =>
        /\ outcome = "ok"
        /\ Keys(results) = AccountNames
        /\ Len(results) = Cardinality(AccountNames)
        /\ \A i \in 1..Len(results) : results[i][2] >= -1

\* C2 (as claimed): get_unread_count() of either handler never lets an
\* exception reach its caller; every failure becomes the return value -1.
C2_Original ==
    lastCall.kind # "none" => ~lastCall.raised

\* C4: with a placeholder configuration (first account's email is the example
\* address) a run without --configure exits with 1, and no handler's
\* authenticate() or get_unread_count() has been called.
C4_PlaceholderGuard ==
    (accounts # <<>> /\ ~configure /\ accounts[1].email = PlaceholderEmail) =>
        /\ pc = "done"
        /\ exitCode = 1
        /\ lastCall = NoCall
        /\ results = <<>>
        /\ \A i \in 1..Len(handlers) : ~handlers[i][2].service
        /\ \A p \in Paths : ~resultFiles[p].exists

C4_Witness ==
    /\ pc = "done" /\ ~configure /\ exitCode = 1
    /\ accounts = default_config
    /\ configFile = [state |-> "ok", accounts |-> default_config]
    /\ Len(handlers) = 3

\* C7 (as claimed): a descriptor of type exactly "oauth_mail" gets the OAuth
\* handler, any other type the IMAP handler, stored under the descriptor's name.
C7_Original ==
    \A i \in 1..Len(handlers) :
        /\ handlers[i][1] = handlers[i][2].account.name
        /\ handlers[i][2].kind = "GmailHandler" <=> handlers[i][2].account.type = "oauth_mail"

\* C7 (amended): the type that selects the OAuth handler is exactly "gmail";
\* every other type, "oauth_mail" included, gets the IMAP handler; each name
\* holds the handler of the last descriptor that carries it.
C7_Dispatch ==
    /\ Keys(handlers) = AccountNames
    /\ \A i \in 1..Len(accounts) :
         (\A j \in (i + 1)..Len(accounts) : accounts[j].name # accounts[i].name) =>
             LET h == Get(handlers, accounts[i].name)
             IN /\ h.account = accounts[i]
                /\ h.kind = (IF accounts[i].type = "gmail" THEN "GmailHandler" ELSE "ImapHandler")

C7_Witness ==
    /\ \E i \in 1..Len(handlers) :
         handlers[i][2].account.type = "oauth_mail" /\ handlers[i][2].kind = "ImapHandler"
    /\ \E i \in 1..Len(handlers) :
         handlers[i][2].account.type = "gmail" /\ handlers[i][2].kind = "GmailHandler"

\* C8 (as claimed): once the IMAP connection is open, get_unread_count()
\* attempts logout before it returns, on every path.
C8_Original ==
    (lastCall.kind = "ImapHandler" /\ Has(lastCall.log, "connected")) => Has(lastCall.log, "logout")

\* C9 (as claimed): whenever authenticate() gets as far as building the
\* session (and returns true), the bundle was written to the token file first.
C9_Original ==
    (lastCall.kind = "GmailHandler" /\ Has(lastCall.log, "build")) =>
        Precedes(lastCall.log, "write_token", "build")

\* C9 (amended): a bundle obtained by the interactive flow or by a refresh is
\* written to the token file before the session is built; a bundle loaded
\* already valid is used as it is and not written again.
C9_PersistWhenAcquired ==
    (lastCall.kind = "GmailHandler" /\ Has(lastCall.log, "build")) =>
        IF lastCall.tokBefore = "valid"
        THEN ~Has(lastCall.log, "write_token")
        ELSE /\ Precedes(lastCall.log, "write_token", "build")
             /\ Has(lastCall.log, "refresh") \/ Has(lastCall.log, "flow")
             /\ tokens[lastCall.email] = "valid"

C9_Witness ==
    /\ lastCall.kind = "GmailHandler"
    /\ lastCall.tokBefore = "refreshable"
    /\ Precedes(lastCall.log, "write_token", "build")

\* C10 (as claimed): a check of an IMAP account prompts exactly when the
\* credential store had no password for it (the first check of a new account
\* is always interactive), and an entered password is stored before returning.
C10_Original ==
    lastCall.kind = "ImapHandler" =>
        /\ Has(lastCall.log, "prompt") <=> ~lastCall.hadPw
        /\ Has(lastCall.log, "keyring_set") => Precedes(lastCall.log, "prompt", "keyring_set")

\* C10 (amended): get_password() runs only once the connection is open; it
\* prompts exactly when the store had no password, and stores the entered
\* password at once.  So a check with a stored password never prompts, and
\* the first check of a new account prompts unless the connection fails.
C10_PromptAfterConnect ==
    lastCall.kind = "ImapHandler" =>
        /\ Has(lastCall.log, "keyring_get") <=> Has(lastCall.log, "connected")
        /\ Has(lastCall.log, "prompt") <=> (Has(lastCall.log, "connected") /\ ~lastCall.hadPw)
        /\ Has(lastCall.log, "keyring_set") =>
             /\ Precedes(lastCall.log, "prompt", "keyring_set")
             /\ keyring[lastCall.email] = TypedPw
        /\ (Has(lastCall.log, "prompt") /\ Has(lastCall.log, "login")) => Has(lastCall.log, "keyring_set")

C10_Witness ==
    /\ lastCall.kind = "ImapHandler" /\ ~lastCall.hadPw
    /\ Precedes(lastCall.log, "prompt", "keyring_set")
    /\ lastCall.value >= 0

\* ---- claims about the status reporter (SpecReport)
Saved == resultFiles[CheckerResultsPath]

\* C3 (as claimed): after save_results wrote a document, a reporter run
\* without --legacy-path yields the counts and the timestamp that were written.
C3_Original ==
    (Saved.exists /\ report.ran /\ ~report.legacy) =>
        /\ report.exit = 0
        /\ report.counts = Saved.counts
        /\ report.hasTs /\ report.timestamp = Saved.timestamp

\* C5 (as claimed): the relative time is given in the largest applicable unit
\* of days, hours, minutes, seconds, with the singular word exactly when the
\* value is 1.
C5_Original ==
    (report.ran /\ ~report.json /\ report.exit = 0 /\ report.hasTs
        /\ report.now >= fromisoformat(report.timestamp)) =>
        LET off == report.now - fromisoformat(report.timestamp)
            n == IF off >= 86400 THEN off \div 86400
                 ELSE IF off >= 3600 THEN off \div 3600
                 ELSE IF off >= 60 THEN off \div 60 ELSE off
            unit == IF off >= 86400 THEN "day"
                    ELSE IF off >= 3600 THEN "hour"
                    ELSE IF off >= 60 THEN "minute" ELSE "second"
            word == IF n = 1 THEN unit ELSE unit \o "s"
        IN \E i \in 1..Len(report.lines) :
              report.lines[i] = Line("last_checked", "", n, word, NoTs)

SameFlags == report.ran /\ prevReport.ran /\ report.json = prevReport.json /\ report.legacy = prevReport.legacy
Printed(r) == [exit |-> r.exit, lines |-> r.lines, dumped |-> r.dumped]

\* C6 (as claimed): two consecutive reporter runs with the same flags and no
\* check between them print the same output, and no run modifies the files.
C6_Original ==
    /\ SameFlags => Printed(report) = Printed(prevReport)
    /\ report.ran => ~report.modified

\* C6 (amended): two such runs print the same output except for the relative
\* "Last checked" line, which follows the clock; with --json, or when no time
\* has passed, the output is the same throughout.  No run modifies the files.
C6_SameButRelativeTime ==
    /\ SameFlags =>
         LET Rest(r) == SelectSeq(r.lines, LAMBDA l : l.kind # "last_checked")
         IN /\ report.exit = prevReport.exit
            /\ report.dumped = prevReport.dumped
            /\ Rest(report) = Rest(prevReport)
            /\ (report.json \/ report.now = prevReport.now) => report.lines = prevReport.lines
    /\ report.ran => ~report.modified

C6_Witness ==
    /\ SameFlags /\ ~report.json /\ report.exit = 0 /\ report.hasTs
    /\ report.now # prevReport.now
    /\ report.lines # prevReport.lines

====
